---- MODULE Spec2Model ----
(***************************************************************************)
(* Model of Halberd's clue analysis (Halberd/clues/analysis.py): merge,    *)
(* classify, sections, uniq, filter_proxies, clusters, analyze and         *)
(* diff_fields.                                                            *)
(*                                                                         *)
(* Clues are objects: the model keeps them in a heap indexed by identity   *)
(* (1..n); lists and tuples of clues are sequences of identities.  Only    *)
(* the count of a clue is ever written (Clue.incCount, called by merge).   *)
(***************************************************************************)
EXTENDS Integers, Sequences, FiniteSets, TLC

VARIABLES
    op,        \* the function under call
    pc,        \* position inside the call
    heap,      \* identity -> clue object (digest, diff, remote, count, headers)
    heap0,     \* the heap as it was before the call
    clues,     \* the caller's collection (list of identities)
    clues0,    \* the caller's collection as it was before the call
    keys,      \* classify: the classifiers given, as field names
    step,      \* clusters: the step argument
    maxdelta,  \* filter_proxies: the maxdelta argument
    work,      \* analyze: the list analyze's local name "clues" is bound to
    sects,     \* sections (or fingerprint groups) not yet iterated over
    runs,      \* filter_proxies: the slices cur_clues[sl] handed to merge so far
    cur,       \* clusters: the tuple the local name "clues" is bound to
    start,     \* clusters: the local "start"
    windows,   \* clusters: the clusters yielded so far, in yield order
    results,   \* the local "results" list
    ret        \* the value returned (or the exception raised)

vars == <<op, pc, heap, heap0, clues, clues0, keys, step, maxdelta, work,
          sects, runs, cur, start, windows, results, ret>>

----------------------------------------------------------------------------
(* Bounds and input domains *)

MaxClues == 3

Digests == {"x", "y"}
Remotes == {1, 2}
Counts == {1, 2}

NoHeaders == << >>

----------------------------------------------------------------------------
(* Generic helpers *)

Abs(x) == IF x < 0 THEN -x ELSE x

Range(s) == {s[i] : i \in DOMAIN s}

\* lists of n distinct clue identities
Lists(n) == {s \in [1..n -> 1..n] : \A i, j \in 1..n : s[i] = s[j] => i = j}

RECURSIVE SumCounts(_, _)
SumCounts(h, s) == IF s = << >> THEN 0 ELSE h[Head(s)].count + SumCounts(h, Tail(s))

RECURSIVE Flatten(_)
Flatten(ss) == IF ss = << >> THEN << >> ELSE Head(ss) \o Flatten(Tail(ss))

\* list.remove(x): drops the first occurrence
RECURSIVE Remove(_, _)
Remove(list, x) ==
    IF list = << >> THEN << >>
    ELSE IF Head(list) = x THEN Tail(list)
    ELSE <<Head(list)>> \o Remove(Tail(list), x)

----------------------------------------------------------------------------
(* merge *)

\* a slip: the loop adds the first clue's count to each of the others
RECURSIVE MergeLoopOnOthers(_, _, _)
MergeLoopOnOthers(h, first, rest) ==
    IF rest = << >> THEN h
    ELSE MergeLoopOnOthers([h EXCEPT ![Head(rest)].count = @ + h[first].count],
                           first, Tail(rest))

\* a slip: the loop runs over clues[1:-1]
RECURSIVE MergeLoopSkipLast(_, _, _)
MergeLoopSkipLast(h, first, rest) ==
    IF Len(rest) <= 1 THEN h
    ELSE MergeLoopSkipLast([h EXCEPT ![first].count = @ + h[Head(rest)].count],
                           first, Tail(rest))

\* for clue in clues[1:]: clues[0].incCount(clue.getCount())
RECURSIVE MergeLoop(_, _, _)
MergeLoop(h, first, rest) ==
    IF rest = << >> THEN h
    ELSE MergeLoop([h EXCEPT ![first].count = @ + h[Head(rest)].count],
                   first, Tail(rest))

\* the heap after merge(group); merge returns group[1]
Merge(h, group) == MergeLoop(h, group[1], Tail(group))

----------------------------------------------------------------------------
(* classify, sections *)

Raise(exc) == [tag |-> "raise", val |-> exc]
Dict(f) == [tag |-> "dict", val |-> f]
List(s) == [tag |-> "list", val |-> s]

\* one level of nesting per classifier; the last level stores the items, each
\* list in the order of seq (setdefault(...).append(item))
RECURSIVE ClassifyLevel(_, _, _)
ClassifyLevel(h, seq, ks) ==
    LET k == Head(ks)
        vals == {h[seq[i]][k] : i \in DOMAIN seq}
        sub(v) == SelectSeq(seq, LAMBDA c : h[c][k] = v)
    IN  Dict([v \in vals |->
                IF Len(ks) = 1 THEN List(sub(v))
                ELSE ClassifyLevel(h, sub(v), Tail(ks))])

\* classify(seq, *classifiers): with no classifier, classifiers[-1] raises
\* IndexError inside the loop over seq, so only when seq has an item
Classify(h, seq, ks) ==
    IF ks = << >>
    THEN IF seq = << >> THEN Dict(<< >>) ELSE Raise("IndexError")
    ELSE ClassifyLevel(h, seq, ks)

\* a slip: only the first key of each mapping is visited
RECURSIVE SectionsFirstKey(_)
SectionsFirstKey(node) ==
    IF node.tag = "dict"
    THEN IF DOMAIN node.val = {} THEN {}
         ELSE SectionsFirstKey(node.val[CHOOSE k \in DOMAIN node.val : TRUE])
    ELSE IF node.tag = "list" THEN {node.val}
    ELSE {}

\* sections(classified): the leaf lists; their order in the result is the
\* mappings' key order, which is not specified: the model keeps them as a set
\* and iterates over it in any order
RECURSIVE Sections(_)
Sections(node) ==
    IF node.tag = "dict"
    THEN UNION {Sections(node.val[k]) : k \in DOMAIN node.val}
    ELSE IF node.tag = "list" THEN {node.val}
    ELSE {}

----------------------------------------------------------------------------
(* decorate_and_sort, undecorate, unzip *)

\* decorated.sort(): the (diff, clue) pairs in ascending diff; pairs of equal
\* diff are ordered by comparing the clue objects, which the analysis does not
\* determine: every ascending arrangement is a possible outcome
DecorateAndSort(h, seq) ==
    {d \in [1..Len(seq) -> {<<h[c].diff, c>> : c \in Range(seq)}] :
        /\ \A i, j \in 1..Len(seq) : d[i] = d[j] => i = j
        /\ \A i \in 1..Len(seq) - 1 : d[i][1] <= d[i + 1][1]}

\* unzip(decorated)[0] and unzip(decorated)[-1]
UnzipDiffs(dec) == [i \in 1..Len(dec) |-> dec[i][1]]
Undecorate(dec) == [i \in 1..Len(dec) |-> dec[i][2]]

----------------------------------------------------------------------------
(* deltas, slices *)

None == << >>
Some(x) == <<x>>

\* deltas(diffs): None for the first element, then diff - prev
Deltas(diffs) ==
    [i \in 1..Len(diffs) |-> IF i = 1 THEN None ELSE Some(diffs[i] - diffs[i - 1])]

\* a slip: >= instead of >
IndexesGe(diffs, md) ==
    LET ds == Deltas(diffs)
    IN  SelectSeq([i \in 1..Len(diffs) |-> i - 1],
                  LAMBDA idx : ds[idx + 1] # None /\ Abs(ds[idx + 1][1]) >= md)

\* [idx for idx, delta in enumerate(deltas(diffs))
\*      if delta is not None and abs(delta) > maxdelta]   (idx counts from 0)
Indexes(diffs, md) ==
    LET ds == Deltas(diffs)
    IN  SelectSeq([i \in 1..Len(diffs) |-> i - 1],
                  LAMBDA idx : ds[idx + 1] # None /\ Abs(ds[idx + 1][1]) > md)

\* slices(seq, indexes): slice(start, idx) for each idx, then slice(start, end)
RECURSIVE SlicesFrom(_, _, _)
SlicesFrom(from, end, indexes) ==
    IF indexes = << >> THEN << <<from, end>> >>
    ELSE << <<from, Head(indexes)>> >> \o SlicesFrom(Head(indexes), end, Tail(indexes))

\* a slip: the closing slice(start, end) is not yielded
SlicesNoLast(seq, indexes) ==
    [i \in 1..Len(indexes) |-> <<IF i = 1 THEN 0 ELSE indexes[i - 1], indexes[i]>>]

Slices(seq, indexes) == SlicesFrom(0, Len(seq), indexes)

\* seq[sl]
Slice(seq, sl) == SubSeq(seq, sl[1] + 1, sl[2])

----------------------------------------------------------------------------
(* clusters: iscluster, find_cluster, invrange *)

DefaultStep == 3
DefaultMaxDelta == 3

\* abs(clues[0].diff - clues[-1].diff) <= num
IsCluster(h, w, num) == Abs(h[w[1]].diff - h[w[Len(w)]].diff) <= num

\* the first num clues when they form a cluster, else ()
FindCluster(h, cl, num) ==
    IF Len(cl) >= num /\ IsCluster(h, SubSeq(cl, 1, num), num)
    THEN SubSeq(cl, 1, num)
    ELSE << >>

\* a slip: the sizes are tried in ascending order
InvRangeAscending(num) == [x \in 1..num |-> x]

\* a slip: the sizes stop short of 1
InvRangeShort(num) == [x \in 1..num - 1 |-> num - (x - 1)]

\* invrange(num) = [num, num - 1, ..., 1]; empty when num <= 0
InvRange(num) == [x \in 1..num |-> num - (x - 1)]

\* for i in sizes: cluster = find_cluster(clues, i); if cluster: ... break
\* the (i, cluster) the loop stops at, or None when it runs out
RECURSIVE FirstCluster(_, _, _)
FirstCluster(h, cl, sizes) ==
    IF sizes = << >> THEN None
    ELSE LET c == FindCluster(h, cl, Head(sizes))
         IN  IF c # << >> THEN Some([i |-> Head(sizes), cluster |-> c])
             ELSE FirstCluster(h, cl, Tail(sizes))

\* a slip: the cursor moves one element too far
AdvanceOneMore(cl, st) == SubSeq(cl, st + 2, Len(cl))

\* clues[start:]
Advance(cl, st) == SubSeq(cl, st + 1, Len(cl))

----------------------------------------------------------------------------
(* filter_proxies: the body of "for sl in slices(cur_clues, indexes)" *)

RECURSIVE RemoveAll(_, _)
RemoveAll(list, run) ==
    IF run = << >> THEN list ELSE RemoveAll(Remove(list, Head(run)), Tail(run))

\* st = [h, list, res, runs]: the heap, the list the clues are removed from,
\* the results list and the slices merged so far
RECURSIVE FilterSlices(_, _, _)
FilterSlices(st, cc, sls) ==
    IF sls = << >> THEN st
    ELSE LET run == Slice(cc, Head(sls))
         IN  FilterSlices([h    |-> Merge(st.h, run),
                           list |-> RemoveAll(st.list, run),
                           res  |-> Append(st.res, run[1]),
                           runs |-> Append(st.runs, run)],
                          cc, Tail(sls))

\* one section: sort, find the indexes, merge each slice
FilterSection(st, dec, md) ==
    FilterSlices(st, Undecorate(dec), Slices(Undecorate(dec), Indexes(UnzipDiffs(dec), md)))

----------------------------------------------------------------------------
(* diff_fields: difflib.SequenceMatcher(None, one, other).get_opcodes()   *)
(* Positions count from 0 and ranges are half open, as in the code.       *)

Min(x, y) == IF x < y THEN x ELSE y

\* find_longest_match: (i, j, k) with a[i:i+k] == b[j:j+k], k maximal, then i
\* minimal, then j minimal; (alo, blo, 0) when nothing matches
FindLongestMatch(a, b, alo, ahi, blo, bhi) ==
    LET cands == {m \in (alo..ahi - 1) \X (blo..bhi - 1) \X (1..Min(ahi - alo, bhi - blo)) :
                    /\ m[1] + m[3] <= ahi
                    /\ m[2] + m[3] <= bhi
                    /\ \A t \in 1..m[3] : a[m[1] + t] = b[m[2] + t]}
        better(m, n) == \/ m[3] > n[3]
                        \/ m[3] = n[3] /\ m[1] < n[1]
                        \/ m[3] = n[3] /\ m[1] = n[1] /\ m[2] <= n[2]
    IN  IF cands = {} THEN <<alo, blo, 0>>
        ELSE CHOOSE m \in cands : \A n \in cands : better(m, n)

\* get_matching_blocks, without its closing (la, lb, 0) entry
RECURSIVE MatchingBlocks(_, _, _, _, _, _)
MatchingBlocks(a, b, alo, ahi, blo, bhi) ==
    LET m == FindLongestMatch(a, b, alo, ahi, blo, bhi)
        i == m[1]
        j == m[2]
        k == m[3]
    IN  IF k = 0 THEN << >>
        ELSE (IF alo < i /\ blo < j THEN MatchingBlocks(a, b, alo, i, blo, j) ELSE << >>)
             \o <<m>>
             \o (IF i + k < ahi /\ j + k < bhi
                 THEN MatchingBlocks(a, b, i + k, ahi, j + k, bhi) ELSE << >>)

\* get_opcodes: (tag, i1, i2, j1, j2) walking the matching blocks
RECURSIVE OpcodesFrom(_, _, _)
OpcodesFrom(i, j, blocks) ==
    IF blocks = << >> THEN << >>
    ELSE LET ai == Head(blocks)[1]
             bj == Head(blocks)[2]
             size == Head(blocks)[3]
             tag == IF i < ai /\ j < bj THEN "replace"
                    ELSE IF i < ai THEN "delete"
                    ELSE IF j < bj THEN "insert"
                    ELSE ""
         IN  (IF tag # "" THEN << <<tag, i, ai, j, bj>> >> ELSE << >>)
             \o (IF size > 0 THEN << <<"equal", ai, ai + size, bj, bj + size>> >> ELSE << >>)
             \o OpcodesFrom(ai + size, bj + size, Tail(blocks))

GetOpcodes(a, b) ==
    OpcodesFrom(0, 0, MatchingBlocks(a, b, 0, Len(a), 0, Len(b)) \o << <<Len(a), Len(b), 0>> >>)

\* the field names counted for one pair: for every opcode that is not "equal",
\* the names of one[alo:ahi] + other[blo:bhi]
RECURSIVE NamesOfOpcodes(_, _, _)
NamesOfOpcodes(one, other, ops) ==
    IF ops = << >> THEN << >>
    ELSE LET o == Head(ops)
             items == SubSeq(one, o[2] + 1, o[3]) \o SubSeq(other, o[4] + 1, o[5])
         IN  (IF o[1] = "equal" THEN << >> ELSE [t \in 1..Len(items) |-> items[t][1]])
             \o NamesOfOpcodes(one, other, Tail(ops))

\* pairs(num): (i, j) for i, j in xrange(num), i != j
Pairs(num) ==
    SelectSeq([k \in 1..num * num |-> <<(k - 1) \div num, (k - 1) % num>>],
              LAMBDA p : p[1] # p[2])

\* every name counted, over all pairs, in counting order
RECURSIVE NamesOfPairs(_, _, _)
NamesOfPairs(h, cl, ps) ==
    IF ps = << >> THEN << >>
    ELSE LET one == h[cl[Head(ps)[1] + 1]].headers
             other == h[cl[Head(ps)[2] + 1]].headers
         IN  NamesOfOpcodes(one, other, GetOpcodes(one, other))
             \o NamesOfPairs(h, cl, Tail(ps))

\* the scores mapping: name -> number of times counted
Scores(h, cl) ==
    LET names == NamesOfPairs(h, cl, Pairs(Len(cl)))
    IN  [n \in Range(names) |-> Len(SelectSeq(names, LAMBDA x : x = n))]

RECURSIVE SumValues(_, _)
SumValues(f, dom) ==
    IF dom = {} THEN 0
    ELSE LET k == CHOOSE x \in dom : TRUE IN f[k] + SumValues(f, dom \ {k})

\* total = sum(scores.values())
Total(scores) == SumValues(scores, DOMAIN scores)

\* the field names in ascending string order
HeaderNames == <<"Date", "Server">>
NameRank(n) == CHOOSE i \in DOMAIN HeaderNames : HeaderNames[i] = n

\* result.sort(); result.reverse() on (percent, field) pairs
SortedDescending(S) ==
    CHOOSE r \in [1..Cardinality(S) -> S] :
        \A i \in 1..Cardinality(S) - 1 :
            \/ r[i][1] > r[i + 1][1]
            \/ r[i][1] = r[i + 1][1] /\ NameRank(r[i][2]) > NameRank(r[i + 1][2])

\* a slip: the scale is computed once, before the comprehension
DiffFieldsHoisted(h, cl) ==
    LET scores == Scores(h, cl)
        total == Total(scores)
    IN  IF total = 0 THEN Raise("ZeroDivisionError")
        ELSE List(SortedDescending({<<(scores[f] * 100) \div total, f>> : f \in DOMAIN scores}))

\* diff_fields(clues): count * 100 / total is evaluated once per item of
\* scores, so it divides by zero only if scores has an item and total is 0
DiffFields(h, cl) ==
    LET scores == Scores(h, cl)
        total == Total(scores)
    IN  IF DOMAIN scores # {} /\ total = 0 THEN Raise("ZeroDivisionError")
        ELSE List(SortedDescending({<<(scores[f] * 100) \div total, f>> : f \in DOMAIN scores}))

----------------------------------------------------------------------------
(* Initial states: a call of one function on inputs the scanning phase can *)
(* produce (distinct clue objects, count >= 1).                            *)

MaxStep == 3
MaxHeaders == 2
MaxDiffClues == 2

MergeSkews == {1, 2}
UniqSkews == {1, 2}
ClusterSkews == {10, 11, 13, 40}
ProxySkews == {100, 101, 104}
AnalyzeSkews == {1, 2, 6}
MaxDeltas == {1, 3}
AnalyzeCounts == {1}
KeyLists == {<< >>, <<"digest">>, <<"digest", "diff">>, <<"remote", "digest">>}
HeaderPairs == {<<"Date", 1>>, <<"Date", 2>>, <<"Server", 1>>}
HeaderLists == UNION {[1..m -> HeaderPairs] : m \in 0..MaxHeaders}

Clue(dg, df, rm, ct, hd) ==
    [digest |-> dg, diff |-> df, remote |-> rm, count |-> ct, headers |-> hd]

Heaps(n, dgs, dfs, rms, cts, hds) ==
    [1..n -> {Clue(dg, df, rm, ct, hd) :
                dg \in dgs, df \in dfs, rm \in rms, ct \in cts, hd \in hds}]

Iota(n) == [i \in 1..n |-> i]

NoValue == [tag |-> "none", val |-> << >>]

Call(o, p, h, cl, ks, st, md) ==
    /\ op = o
    /\ pc = p
    /\ heap = h
    /\ heap0 = h
    /\ clues = cl
    /\ clues0 = cl
    /\ keys = ks
    /\ step = st
    /\ maxdelta = md
    /\ work = << >>
    /\ sects = {}
    /\ runs = << >>
    /\ cur = IF o = "clusters" THEN cl ELSE << >>
    /\ start = 0
    /\ windows = << >>
    /\ results = << >>
    /\ ret = NoValue

InitMerge ==
    \E h \in Heaps(MaxClues, Digests, MergeSkews, {1}, Counts, {NoHeaders}) :
        \E m \in 0..MaxClues :
            Call("merge", "merge", h, Iota(m), << >>, DefaultStep, DefaultMaxDelta)

InitClassify ==
    \E n \in 0..MaxClues :
        \E h \in Heaps(n, Digests, UniqSkews, Remotes, {1}, {NoHeaders}) :
            \E ks \in KeyLists :
                Call("classify", "classify", h, Iota(n), ks, DefaultStep, DefaultMaxDelta)

InitUniq ==
    \E n \in 0..MaxClues :
        \E h \in Heaps(n, Digests, UniqSkews, {1}, Counts, {NoHeaders}) :
            Call("uniq", "uniq:classify", h, Iota(n), << >>, DefaultStep, DefaultMaxDelta)

\* the skews 100, 101, 102, 200 of one (remote, fingerprint) group
ProxyScenario ==
    [i \in 1..4 |-> Clue("x", <<100, 101, 102, 200>>[i], 1, 1, NoHeaders)]

InitFilter ==
    \/ \E n \in 0..MaxClues :
        \E h \in Heaps(n, {"x"}, ProxySkews, Remotes, Counts, {NoHeaders}) :
            \E md \in MaxDeltas :
                Call("filter_proxies", "fp:classify", h, Iota(n), << >>, DefaultStep, md)
    \/ \E p \in Lists(4) :
        Call("filter_proxies", "fp:classify", ProxyScenario, p, << >>,
             DefaultStep, DefaultMaxDelta)

InitClusters ==
    \E n \in 0..MaxClues :
        \E h \in Heaps(n, {"x"}, ClusterSkews, {1}, {1}, {NoHeaders}) :
            \E st \in 0..MaxStep :
                Call("clusters", "cl:sort", h, Iota(n), << >>, st, DefaultMaxDelta)

\* remotes and fingerprints are opaque names: up to renaming them, the first
\* clue has remote 1 and fingerprint x
InitAnalyze ==
    \E n \in 0..MaxClues :
        \E h \in Heaps(n, Digests, AnalyzeSkews, Remotes, AnalyzeCounts, {NoHeaders}) :
            /\ n >= 1 => (h[1].remote = 1 /\ h[1].digest = "x")
            /\ Call("analyze", "uniq:classify", h, Iota(n), << >>, DefaultStep, DefaultMaxDelta)

InitDiffFields ==
    \E n \in 0..MaxDiffClues :
        \E h \in Heaps(n, {"x"}, {1}, {1}, {1}, HeaderLists) :
            Call("diff_fields", "diff_fields", h, Iota(n), << >>, DefaultStep, DefaultMaxDelta)

----------------------------------------------------------------------------
(* Actions *)

ClueRef(c) == [tag |-> "clue", val |-> c]

\* merge(clues), called by itself: clues[0] of an empty sequence raises
MergeCall ==
    /\ pc = "merge"
    /\ IF clues = << >>
       THEN /\ pc' = "raised"
            /\ ret' = Raise("IndexError")
            /\ heap' = heap
       ELSE /\ pc' = "done"
            /\ ret' = ClueRef(clues[1])
            /\ heap' = Merge(heap, clues)
    /\ UNCHANGED <<op, heap0, clues, clues0, keys, step, maxdelta, work, sects,
                   runs, cur, start, windows, results>>

\* classify(seq, *classifiers), called by itself
ClassifyCall ==
    /\ pc = "classify"
    /\ ret' = Classify(heap, clues, keys)
    /\ pc' = IF ret'.tag = "raise" THEN "raised" ELSE "done"
    /\ UNCHANGED <<op, heap, heap0, clues, clues0, keys, step, maxdelta, work,
                   sects, runs, cur, start, windows, results>>

\* uniq: results = []; classified = classify(clues, get_digest, get_diff)
UniqClassify ==
    /\ pc = "uniq:classify"
    /\ sects' = Sections(Classify(heap, clues, <<"digest", "diff">>))
    /\ results' = << >>
    /\ pc' = "uniq:loop"
    /\ UNCHANGED <<op, heap, heap0, clues, clues0, keys, step, maxdelta, work,
                   runs, cur, start, windows, ret>>

\* uniq: one iteration of "for section in sections(classified)"
UniqMerge ==
    /\ pc = "uniq:loop"
    /\ \E s \in sects :
        /\ heap' = Merge(heap, s)
        /\ results' = Append(results, s[1])
        /\ sects' = sects \ {s}
    /\ UNCHANGED <<op, pc, heap0, clues, clues0, keys, step, maxdelta, work,
                   runs, cur, start, windows, ret>>

\* uniq: return results; in analyze, clues = uniq(clues) rebinds the local name
UniqReturn ==
    /\ pc = "uniq:loop"
    /\ sects = {}
    /\ IF op = "analyze"
       THEN /\ work' = results
            /\ pc' = "fp:classify"
            /\ ret' = ret
       ELSE /\ work' = work
            /\ pc' = "done"
            /\ ret' = List(results)
    /\ UNCHANGED <<op, heap, heap0, clues, clues0, keys, step, maxdelta, sects,
                   runs, cur, start, windows, results>>

\* the list filter_proxies was given: the caller's, or analyze's local one
FilterArg == IF op = "analyze" THEN work ELSE clues

\* filter_proxies: results = []; classify by (remote, digest); sections
FilterClassify ==
    /\ pc = "fp:classify"
    /\ sects' = Sections(Classify(heap, FilterArg, <<"remote", "digest">>))
    /\ results' = << >>
    /\ runs' = << >>
    /\ pc' = "fp:loop"
    /\ UNCHANGED <<op, heap, heap0, clues, clues0, keys, step, maxdelta, work,
                   cur, start, windows, ret>>

\* filter_proxies: one iteration of "for section in subsections"
FilterSectionStep ==
    /\ pc = "fp:loop"
    /\ \E s \in sects :
        \E dec \in DecorateAndSort(heap, s) :
            LET st == FilterSection([h |-> heap, list |-> FilterArg,
                                     res |-> results, runs |-> runs],
                                    dec, maxdelta)
            IN  /\ heap' = st.h
                /\ results' = st.res
                /\ runs' = st.runs
                /\ sects' = sects \ {s}
                /\ IF op = "analyze"
                   THEN work' = st.list /\ clues' = clues
                   ELSE clues' = st.list /\ work' = work
    /\ UNCHANGED <<op, pc, heap0, clues0, keys, step, maxdelta, cur, start,
                   windows, ret>>

\* filter_proxies: return results; in analyze, clues = filter_proxies(clues)
FilterReturn ==
    /\ pc = "fp:loop"
    /\ sects = {}
    /\ IF op = "analyze"
       THEN /\ work' = results
            /\ pc' = "an:classify"
            /\ ret' = ret
       ELSE /\ work' = work
            /\ pc' = "done"
            /\ ret' = List(results)
    /\ UNCHANGED <<op, heap, heap0, clues, clues0, keys, step, maxdelta, sects,
                   runs, cur, start, windows, results>>

\* clusters: clues = undecorate(decorate_and_sort(clues)); start = 0.
\* Of no clues, unzip(...) is the empty tuple and its [-1] raises IndexError.
ClustersSort ==
    /\ pc = "cl:sort"
    /\ IF cur = << >>
       THEN /\ pc' = "raised"
            /\ ret' = Raise("IndexError")
            /\ cur' = cur
       ELSE /\ pc' = "cl:loop"
            /\ ret' = ret
            /\ \E dec \in DecorateAndSort(heap, cur) : cur' = Undecorate(dec)
    /\ start' = 0
    /\ UNCHANGED <<op, heap, heap0, clues, clues0, keys, step, maxdelta, work,
                   sects, runs, windows, results>>

\* clusters: one iteration of "while True"; in analyze the cluster yielded is
\* merged and appended to results before the generator is resumed
ClustersIter ==
    /\ pc = "cl:loop"
    /\ cur' = Advance(cur, start)
    /\ IF cur' = << >>
       THEN /\ pc' = IF op = "analyze" THEN "an:pick" ELSE "done"
            /\ ret' = IF op = "analyze" THEN ret ELSE List(windows)
            /\ UNCHANGED <<start, windows, heap, results>>
       ELSE LET f == FirstCluster(heap, cur', InvRange(step))
            IN  /\ pc' = pc
                /\ ret' = ret
                /\ IF f = None
                   THEN UNCHANGED <<start, windows, heap, results>>
                   ELSE /\ windows' = Append(windows, f[1].cluster)
                        /\ start' = f[1].i
                        /\ IF op = "analyze"
                           THEN /\ heap' = Merge(heap, f[1].cluster)
                                /\ results' = Append(results, f[1].cluster[1])
                           ELSE UNCHANGED <<heap, results>>
    /\ UNCHANGED <<op, heap0, clues, clues0, keys, step, maxdelta, work, sects, runs>>

\* analyze: results = [] (line 417); cluesbydigest = classify(clues, get_digest)
AnalyzeClassify ==
    /\ pc = "an:classify"
    /\ sects' = Sections(Classify(heap, work, <<"digest">>))
    /\ results' = << >>
    /\ pc' = "an:pick"
    /\ UNCHANGED <<op, heap, heap0, clues, clues0, keys, step, maxdelta, work,
                   runs, cur, start, windows, ret>>

\* analyze: "for key in cluesbydigest.keys()": clusters(cluesbydigest[key])
AnalyzePick ==
    /\ pc = "an:pick"
    /\ \E g \in sects :
        /\ cur' = g
        /\ sects' = sects \ {g}
    /\ windows' = << >>
    /\ pc' = "cl:sort"
    /\ UNCHANGED <<op, heap, heap0, clues, clues0, keys, step, maxdelta, work,
                   runs, start, results, ret>>

\* analyze: return results
AnalyzeReturn ==
    /\ pc = "an:pick"
    /\ sects = {}
    /\ pc' = "done"
    /\ ret' = List(results)
    /\ UNCHANGED <<op, heap, heap0, clues, clues0, keys, step, maxdelta, work,
                   sects, runs, cur, start, windows, results>>

\* diff_fields(clues)
DiffFieldsCall ==
    /\ pc = "diff_fields"
    /\ ret' = DiffFields(heap, clues)
    /\ pc' = IF ret'.tag = "raise" THEN "raised" ELSE "done"
    /\ UNCHANGED <<op, heap, heap0, clues, clues0, keys, step, maxdelta, work,
                   sects, runs, cur, start, windows, results>>

----------------------------------------------------------------------------
(* Specifications: one per function, and one for the functions together *)

NextMerge == MergeCall
NextClassify == ClassifyCall
NextUniq == UniqClassify \/ UniqMerge \/ UniqReturn
NextFilter == FilterClassify \/ FilterSectionStep \/ FilterReturn
NextClusters == ClustersSort \/ ClustersIter
NextAnalyze ==
    \/ UniqClassify \/ UniqMerge \/ UniqReturn
    \/ FilterClassify \/ FilterSectionStep \/ FilterReturn
    \/ AnalyzeClassify \/ AnalyzePick \/ AnalyzeReturn
    \/ ClustersSort \/ ClustersIter
NextDiffFields == DiffFieldsCall

SpecMerge == InitMerge /\ [][NextMerge]_vars
SpecClassify == InitClassify /\ [][NextClassify]_vars
SpecUniq == InitUniq /\ [][NextUniq]_vars
SpecFilter == InitFilter /\ [][NextFilter]_vars
SpecClusters == InitClusters /\ [][NextClusters]_vars
SpecAnalyze == InitAnalyze /\ [][NextAnalyze]_vars
SpecDiffFields == InitDiffFields /\ [][NextDiffFields]_vars

\* the generator is driven to exhaustion by its consumer: a step that can be
\* taken is taken
FairSpecClusters == SpecClusters /\ WF_vars(NextClusters)

\* the functions that write to clue objects or to a list of clues
Init ==
    \/ InitMerge \/ InitUniq \/ InitFilter \/ InitClusters \/ InitAnalyze
Next ==
    \/ MergeCall
    \/ UniqClassify \/ UniqMerge \/ UniqReturn
    \/ FilterClassify \/ FilterSectionStep \/ FilterReturn
    \/ AnalyzeClassify \/ AnalyzePick \/ AnalyzeReturn
    \/ ClustersSort \/ ClustersIter
Spec == Init /\ [][Next]_vars

----------------------------------------------------------------------------
(* Properties *)

NoRepeats(s) == \A i, j \in DOMAIN s : s[i] = s[j] => i = j

IsPermutation(s, t) == Len(s) = Len(t) /\ Range(s) = Range(t) /\ NoRepeats(s)

Diffs(h, s) == [i \in DOMAIN s |-> h[s[i]].diff]

Ascending(h, s) == \A i \in 1..Len(s) - 1 : h[s[i]].diff <= h[s[i + 1]].diff

\* C1: merge of a non-empty group returns the group's first clue, whose count
\* is then the sum of the counts the group's clues had before the call and
\* whose other fields are as before; of a single clue, the clue unchanged.
C1_MergeSum ==
    (op = "merge" /\ clues0 # << >> /\ pc # "merge") =>
        /\ pc = "done"
        /\ ret = ClueRef(clues0[1])
        /\ heap[clues0[1]] =
              [heap0[clues0[1]] EXCEPT !.count = SumCounts(heap0, clues0)]
        /\ Len(clues0) = 1 => heap[clues0[1]] = heap0[clues0[1]]

C1_Witness ==
    /\ op = "merge" /\ pc = "done" /\ Len(clues0) = 3
    /\ heap0[1].count = 1 /\ heap[1].count = 5

\* C2: the output of uniq holds no two clues of the same (fingerprint, skew),
\* and its counts sum to the sum of the counts the input had before the call.
C2_UniqDistinctAndSum ==
    (op = "uniq" /\ pc = "done") =>
        /\ ret = List(results)
        /\ \A i, j \in DOMAIN results :
              (/\ heap[results[i]].digest = heap[results[j]].digest
               /\ heap[results[i]].diff = heap[results[j]].diff) => i = j
        /\ SumCounts(heap, results) = SumCounts(heap0, clues0)

C2_Witness ==
    /\ op = "uniq" /\ pc = "done" /\ Len(clues0) = 3 /\ Len(results) = 2
    /\ SumCounts(heap0, clues0) = 5 /\ \E i \in DOMAIN results : heap[results[i]].count = 4

\* C3: clusters never yields a window of more than step clues, and the
\* windows yielded, concatenated in yield order, are the input sorted by skew
\* ascending: no clue repeated, none skipped, and every clue yielded once the
\* generator is finished.
C3_WindowsPartitionSorted ==
    op = "clusters" =>
        LET out == Flatten(windows)
        IN  /\ \A w \in DOMAIN windows : Len(windows[w]) <= step
            /\ NoRepeats(out)
            /\ Range(out) \subseteq Range(clues0)
            /\ Ascending(heap0, out)
            /\ \A c \in Range(clues0) \ Range(out) :
                  \A d \in Range(out) : heap0[d].diff <= heap0[c].diff
            /\ pc = "done" => IsPermutation(out, clues0) /\ ret = List(windows)

C3_Witness ==
    /\ op = "clusters" /\ pc = "done" /\ step = 2
    /\ Len(clues0) = 3 /\ Len(windows) = 2 /\ Len(windows[1]) = 2

\* the clues not yet consumed by the generator
Suffix == IF pc = "cl:loop" THEN Advance(cur, start) ELSE << >>

LargestK(h, suffix, st) ==
    LET ok == {k \in 1..st : /\ Len(suffix) >= k
                             /\ Abs(h[suffix[1]].diff - h[suffix[k]].diff) <= k}
    IN  CHOOSE k \in ok : \A m \in ok : m <= k

SameGroup(h, a, b) == h[a].remote = h[b].remote /\ h[a].digest = h[b].digest

\* C5: filter_proxies merges, in each (remote, fingerprint) group sorted by
\* skew, each maximal run of clues whose consecutive gaps are <= maxdelta: the
\* runs are not empty, ascending, of one group, and partition the input; gaps
\* inside a run are <= maxdelta and two runs of one group are more than
\* maxdelta apart; each result is the first clue of its run, with the sum of
\* the run's counts.  Skews 100, 101, 102, 200 with maxdelta 3 give two.
C5_FilterRuns ==
    op = "filter_proxies" =>
        /\ Len(results) = Len(runs)
        /\ \A i \in DOMAIN runs :
              LET r == runs[i]
              IN  /\ r # << >>
                  /\ results[i] = r[1]
                  /\ heap[r[1]].count = SumCounts(heap0, r)
                  /\ \A k \in 1..Len(r) - 1 :
                        /\ SameGroup(heap0, r[k], r[k + 1])
                        /\ heap0[r[k]].diff <= heap0[r[k + 1]].diff
                        /\ heap0[r[k + 1]].diff - heap0[r[k]].diff <= maxdelta
        /\ \A i, j \in DOMAIN runs :
              (i # j /\ SameGroup(heap0, runs[i][1], runs[j][1])) =>
                  \/ heap0[runs[j][1]].diff - heap0[runs[i][Len(runs[i])]].diff > maxdelta
                  \/ heap0[runs[i][1]].diff - heap0[runs[j][Len(runs[j])]].diff > maxdelta
        /\ NoRepeats(Flatten(runs))
        /\ pc = "done" =>
              /\ IsPermutation(Flatten(runs), clues0)
              /\ ret = List(results)
              /\ heap0 = ProxyScenario =>
                    {Diffs(heap0, runs[i]) : i \in DOMAIN runs}
                        = {<<100, 101, 102>>, <<200>>}

C5_Witness ==
    /\ op = "filter_proxies" /\ pc = "done" /\ heap0 = ProxyScenario
    /\ Len(results) = 2
    /\ {heap[results[i]].count : i \in DOMAIN results} = {3, 1}

\* C6: classify with no key function ends in an error whatever the input
\* collection, the empty one included; it never returns a mapping.
C6_ZeroClassifiersRaise ==
    (op = "classify" /\ keys = << >> /\ pc # "classify") =>
        pc = "raised" /\ ret.tag = "raise"

\* C7: diff_fields returns an empty result, and raises nothing, when it is
\* given fewer than 2 clues or when no field is ever counted (total = 0).
C7_DiffFieldsEmpty ==
    (/\ op = "diff_fields" /\ pc # "diff_fields"
     /\ (Len(clues0) < 2 \/ Total(Scores(heap0, clues0)) = 0)) =>
        pc = "done" /\ ret = List(<< >>)

C7_Witness ==
    /\ op = "diff_fields" /\ pc = "done" /\ Len(clues0) = 2
    /\ heap0[1].headers = heap0[2].headers /\ Len(heap0[1].headers) = 2
    /\ ret = List(<< >>)

RECURSIVE IsSubSeq(_, _)
IsSubSeq(s, t) ==
    IF s = << >> THEN TRUE
    ELSE IF t = << >> THEN FALSE
    ELSE IF Head(s) = Head(t) THEN IsSubSeq(Tail(s), Tail(t))
    ELSE IsSubSeq(s, Tail(t))

Changed(c) == heap[c] # heap0[c]

\* the first clue of its (fingerprint, skew) class in the caller's collection
FirstOfClass(c) ==
    \E i \in DOMAIN clues0 :
        /\ clues0[i] = c
        /\ \A j \in 1..i - 1 :
              ~(/\ heap0[clues0[j]].digest = heap0[c].digest
                /\ heap0[clues0[j]].diff = heap0[c].diff)

\* C8 as stated: merge, uniq, clusters and analyze leave every clue with the
\* field values (count included) it had before the call, and uniq and analyze
\* leave the caller's collection with the same elements.
C8_NoSideEffects ==
    op \in {"merge", "uniq", "clusters", "analyze"} =>
        /\ heap = heap0
        /\ op \in {"uniq", "analyze"} => clues = clues0

\* C8 amended: besides filter_proxies removing elements from the collection
\* passed to it, merge adds to the count of the first clue of the group it
\* merges.  No call changes a field other than count or lowers a count;
\* clusters changes no clue; merge changes only the group's first clue; uniq
\* and analyze change only clues that are the first of their (fingerprint,
\* skew) class in the input; merge, uniq, clusters and analyze leave the
\* caller's collection with the same elements.
C8_SideEffects ==
    /\ \A c \in DOMAIN heap :
          /\ heap[c] = [heap0[c] EXCEPT !.count = heap[c].count]
          /\ heap[c].count >= heap0[c].count
    /\ op = "clusters" => heap = heap0
    /\ op = "merge" => \A c \in DOMAIN heap : Changed(c) => (clues0 # << >> /\ c = clues0[1])
    /\ op \in {"uniq", "analyze"} => \A c \in DOMAIN heap : Changed(c) => FirstOfClass(c)
    /\ op \in {"merge", "uniq", "clusters", "analyze"} => clues = clues0
    /\ op = "filter_proxies" => IsSubSeq(clues, clues0)

C8_Witness ==
    /\ op = "analyze" /\ pc = "done" /\ Len(clues0) = 3 /\ clues = clues0
    /\ heap[1].count = 3 /\ heap0[1].count = 1

\* C9: for a non-empty collection and step >= 1, every iteration of the
\* clusters loop that does not finish the generator yields one window and
\* consumes its clues, at least 1 and at most step, from the remaining
\* suffix, and the generator eventually finishes with the suffix empty.
C9_Progress ==
    /\ [][(op = "clusters" /\ pc = "cl:loop" /\ step >= 1 /\ pc' # "done") =>
            /\ Len(windows') = Len(windows) + 1
            /\ start' = Len(windows'[Len(windows')])
            /\ start' \in 1..step
            /\ Len(cur') - start' = (Len(cur) - start) - start'
            /\ Len(cur') - start' < Len(cur) - start]_vars
    /\ (op = "clusters" /\ step >= 1 /\ clues0 # << >>) ~> (pc = "done" /\ cur = << >>)

C9_Witness ==
    /\ op = "clusters" /\ pc = "done" /\ step >= 1 /\ cur = << >>
    /\ Len(clues0) = 3 /\ Len(windows) = 3

\* C10: the counts of the clues analyze returns sum to the sum of the counts
\* of the input before the call; skews 1, 2, 2 with fingerprints x, y, y and
\* one remote give two clues, x with count 1 and y with count 2.
C10_AnalyzeConservesCount ==
    (op = "analyze" /\ pc = "done") =>
        /\ ret = List(results)
        /\ NoRepeats(results)
        /\ SumCounts(heap, results) = SumCounts(heap0, clues0)
        /\ (/\ Len(clues0) = 3
            /\ Diffs(heap0, clues0) = <<1, 2, 2>>
            /\ [i \in 1..3 |-> heap0[clues0[i]].digest] = <<"x", "y", "y">>
            /\ \A i \in 1..3 : heap0[clues0[i]].remote = 1 /\ heap0[clues0[i]].count = 1) =>
              {<<heap[results[i]].digest, heap[results[i]].count>> : i \in DOMAIN results}
                  = {<<"x", 1>>, <<"y", 2>>} /\ Len(results) = 2

C10_Witness ==
    /\ op = "analyze" /\ pc = "done" /\ Len(clues0) = 3
    /\ Diffs(heap0, clues0) = <<1, 2, 2>>
    /\ [i \in 1..3 |-> heap0[clues0[i]].digest] = <<"x", "y", "y">>
    /\ \A i \in 1..3 : heap0[clues0[i]].remote = 1
    /\ Len(results) = 2

====
